---- MODULE Spec2Model ----
(***************************************************************************)
(* The import pipeline of the Conversation Vault backend:                  *)
(*   backend/app/api/import_jobs.py   create_import_job, run_import_job    *)
(*   backend/app/api/api_keys.py      create/update/delete_api_key         *)
(*   backend/app/services/encryption.py, backend/app/providers/registry.py *)
(*   backend/app/models/models.py     the tables and their constraints     *)
(*                                                                         *)
(* The database is the shared state.  Every run_import_job execution owns  *)
(* its own session (import_jobs.py:27-29): rows it has flushed but not     *)
(* committed live in run[j].pending and are invisible to everybody else.   *)
(* A step of a run is one access to the shared database together with the  *)
(* local code around it; the results of the adapter calls are inputs.      *)
(***************************************************************************)
EXTENDS Integers, Sequences, FiniteSets, TLC

\* ------------------------------------------------------------------ bounds
MaxJobs == 2          \* import jobs created in one behaviour
MaxKeys == 1          \* api key rows created in one behaviour
MaxSummaries == 2     \* length of the list returned by list_conversations
MaxRegisterCalls == 2 \* register calls after the registry was constructed

\* ------------------------------------------------------- program constants
\* errors[:10], import_jobs.py:157
ErrorCap == 10
\* a NULL DateTime column (finished_at, last_used_at); the clock starts above it
NoTime == 0

\* --------------------------------------------------------------- universes
NULL == "NULL"
NoId == << >>

\* providers.id: the two rows seeded by the migration (no operation adds,
\* renames or deletes a provider)
Providers == {1, 2}
ProviderName(p) == CASE p = 1 -> "openai" [] OTHER -> "anthropic"

\* ProviderRegistry._register_default_providers
RegisteredAdapters == {"openai", "anthropic"}

\* the values settings.encryption_key may hold in two deployments of the process
Secrets == {1, 2}
PlainKeys == {"sk-1"}

NativeIds == {"a", "b"}
\* an adapter that reports a rejected credential by quoting it
KeyEcho(plain) == "invalid api key " \o plain
\* str(e) of an exception raised by an adapter or by the database driver
ExcMessages == {"", "timeout"} \cup { KeyEcho(plain) : plain \in PlainKeys }

JobIds == 1..MaxJobs
KeyIds == 1..MaxKeys

VARIABLES
    key_seq,          \* the api key ids handed out so far (an id is never reused)
    encryption_key,   \* settings.encryption_key of the running process
    clock,            \* datetime.now()
    api_keys,         \* table api_keys: key id -> row
    import_jobs,      \* table import_jobs: job id -> committed row
    conversations,    \* table conversations: set of committed rows
    messages,         \* table messages: set of committed rows
    artifacts,        \* table artifacts: set of committed rows
    run,              \* job id -> local state of its run_import_job execution
    adapter_log,      \* job id -> the adapter calls the run has made, in order
    outcome,          \* job id -> per processed summary: imported / skipped / error
    registry,         \* provider_registry._adapters: name -> adapter
    register_calls,   \* the adapters passed to register since construction, in order
    lookup,           \* the outcome of the latest get_adapter call
    request           \* the POST /import-jobs request a worker thread is handling

regvars == <<registry, register_calls, lookup>>
vars == <<key_seq, encryption_key, clock, api_keys, import_jobs, conversations, messages,
          artifacts, run, adapter_log, outcome, regvars, request>>

\* ------------------------------------------------------------------- text
\* A Text column holds a sequence of lines; NULL is the empty sequence and the
\* empty string is the single empty line.
NullText == << >>
NoConv == "-"
Line(conv, msg) == [conv |-> conv, msg |-> msg]
\* str(e)
Str(msg) == << Line(NoConv, msg) >>
\* f"Error importing conversation {summary.provider_conversation_id}: {str(e)}"
ItemError(sid, msg) == Line(sid, msg)
\* f"Imported {c} conversations, {m} messages, {a} artifacts"
SummaryText(c, m, a) == << [conversations |-> c, messages |-> m, artifacts |-> a] >>
\* a Python string is truthy / non-empty
TextNonEmpty(t) == t # NullText /\ t # Str("")

Min(a, b) == IF a < b THEN a ELSE b
\* errors[:n]
Take(s, n) == SubSeq(s, 1, Min(n, Len(s)))

SeqsUpTo(S, n) == UNION { [1..k -> S] : k \in 0..n }


\* ------------------------------------------------------- credential vault
\* encrypt_api_key: a Fernet token opens only under the secret that made it
encrypt_api_key(plain) == [plain |-> plain, secret |-> encryption_key]
\* cipher.decrypt raises InvalidToken for a token made under another secret
DecryptRaises(token) == token.secret # encryption_key
\* decrypt_api_key, when it does not raise
decrypt_api_key(token) == token.plain

\* ------------------------------------------------------- adapter registry
\* an adapter object: its provider_name and which instance it is (1 is the one
\* built by _register_default_providers)
Adapter(name, inst) == [provider_name |-> name, instance |-> inst]
\* ProviderRegistry.__init__: the two built-in adapters
DefaultRegistry == [n \in RegisteredAdapters |-> Adapter(n, 1)]
NotAnAdapter == Adapter(NULL, 0)
NoLookup == [name |-> NULL, raised |-> NULL, returned |-> NotAnAdapter]
ValueError(name) == "Unknown provider: " \o name
\* ProviderRegistry.get_adapter raises ValueError for an unregistered name
GetAdapterRaises(name) == name \notin DOMAIN registry
UnknownProvider(name) == Str("Unknown provider: " \o name)

\* ------------------------------------------------------------- adapter i/o
\* ProviderConversationDetail as far as the pipeline reads it: the native id,
\* the sequence_index of each message, the message_sequence_index of each artifact
NoDetail == [provider_conversation_id |-> NULL, title |-> NULL,
             messages |-> << >>, artifacts |-> << >>]
\* the title of the detail each adapter of the repository returns
PlaceholderTitle(name) ==
    IF name = "anthropic" THEN "Placeholder Claude Conversation"
                          ELSE "Placeholder Conversation"
\* OpenAIAdapter.fetch_conversation and AnthropicAdapter.fetch_conversation: the
\* id echoed, the adapter's fixed title, no message and no artifact
Placeholder(name, sid) ==
    [provider_conversation_id |-> sid, title |-> PlaceholderTitle(name),
     messages |-> << >>, artifacts |-> << >>]
\* what an adapter registered for a provider that keeps conversations may hold
\* under each native id.  Conversation "a" has two
\* messages delivered out of order and one artifact attached to the message of
\* sequence_index 0, or (edited on the provider's side) another title and two
\* messages that carry the same sequence_index, or three messages in order and
\* one artifact; conversation "b" has no message and one artifact whose
\* message_sequence_index therefore matches no message
Contents(sid) ==
    IF sid = "a" THEN { [title |-> "t1", messages |-> <<1, 0>>, artifacts |-> <<0>>],
                        [title |-> "t2", messages |-> <<0, 0>>, artifacts |-> << >>],
                        [title |-> "t3", messages |-> <<0, 1, 2>>, artifacts |-> <<1>>] }
                 ELSE { [title |-> NULL, messages |-> << >>, artifacts |-> <<2>>] }
\* ProviderConversationDetail.provider_conversation_id: the repository's adapters
\* echo the id they were asked for; the dataclass does not enforce its annotation
\* and the conversations column is nullable, so the detail of conversation "b"
\* may also come without a native id
ReturnedIds(sid) == IF sid = "a" THEN {sid} ELSE {sid, NULL}
\* the values fetch_conversation of the adapter registered under a name may
\* return for a native id
Details(name, sid) ==
    {Placeholder(name, sid)} \cup
    { [provider_conversation_id |-> pcid, title |-> c.title,
       messages |-> c.messages, artifacts |-> c.artifacts] :
        pcid \in ReturnedIds(sid), c \in Contents(sid) }
SummaryLists == SeqsUpTo(NativeIds, MaxSummaries)
AllDetails == UNION { Details(name, sid) : name \in RegisteredAdapters, sid \in NativeIds }
\* the details fetched where two full runs interleave: what the repository's
\* adapters return, and the first version of conversation "a"
ShortDetails ==
    { d \in AllDetails : d.provider_conversation_id # NULL
                          /\ d.title \in { PlaceholderTitle(name) : name \in RegisteredAdapters }
                                        \cup {"t1"} }

ListCall(ok) == [call |-> "list", id |-> NoConv, ok |-> ok, detail |-> NoDetail]
FetchCall(sid, ok, d) == [call |-> "fetch", id |-> sid, ok |-> ok, detail |-> d]

\* ------------------------------------------------------------ request data
NoDate == 0
\* requested_range as create_import_job builds it (import_jobs.py:225-237):
\* a key is present when its bound is truthy, the column is NULL for an empty dict
Iso(d) == <<"iso", d>>
\* lines 225-230 storing both keys whatever the request carries
RangeDictBothKeys(from, to) == {<<"from_date", Iso(from)>>, <<"to_date", Iso(to)>>}

RangeDict(from, to) ==
    (IF from # NoDate THEN {<<"from_date", Iso(from)>>} ELSE {})
    \cup (IF to # NoDate THEN {<<"to_date", Iso(to)>>} ELSE {})
RequestedRange(from, to) ==
    LET d == RangeDict(from, to) IN [isnull |-> d = {}, entries |-> d]
\* options = dict(job.requested_range) if job.requested_range else {}
Options(rr) == IF ~rr.isnull /\ rr.entries # {} THEN rr.entries ELSE {}

\* ---------------------------------------------------------------- the rows
\* (started_at has server_default now())
NewJob(p, k, from, to) ==
    [provider_id |-> p, api_key_id |-> k, status |-> "running", started_at |-> clock,
     requested_range |-> RequestedRange(from, to),
     finished_at |-> NoTime, summary |-> NullText, error_details |-> NullText,
     conversations_imported |-> 0, messages_imported |-> 0, artifacts_imported |-> 0]

NewKey(p, plain) ==
    [provider_id |-> p, key_encrypted |-> encrypt_api_key(plain),
     is_active |-> TRUE, last_used_at |-> NoTime]

\* the uuid of the conversation row a run creates for its i-th summary
ConvId(j, i) == <<j, i>>
\* Conversation(provider_id=api_key_record.provider_id, ...)
ConversationRowOfKeyProvider(j, i, p, d) ==
    [id |-> ConvId(j, i), provider_id |-> api_keys[import_jobs[j].api_key_id].provider_id,
     provider_conversation_id |-> d.provider_conversation_id,
     title |-> d.title, import_job_id |-> j]

ConversationRow(j, i, p, d) ==
    [id |-> ConvId(j, i), provider_id |-> p,
     provider_conversation_id |-> d.provider_conversation_id,
     title |-> d.title, import_job_id |-> j]
\* lines 115-126 numbering the messages by their place in the list
MessageRowsRenumbered(cid, d) ==
    { [id |-> <<cid, n>>, conversation_id |-> cid, sequence_index |-> n - 1] :
        n \in 1..Len(d.messages) }

\* Message(conversation_id=..., sequence_index=msg.sequence_index, ...)
MessageRows(cid, d) ==
    { [id |-> <<cid, n>>, conversation_id |-> cid, sequence_index |-> d.messages[n]] :
        n \in 1..Len(d.messages) }
\* lines 128-141 keeping only the artifacts that name a message of the detail
ArtifactRowsLinkedOnly(cid, d) ==
    { [id |-> <<cid, n>>, conversation_id |-> cid, message_id |-> NoId] :
        n \in { k \in 1..Len(d.artifacts) :
                   \E x \in 1..Len(d.messages) : d.messages[x] = d.artifacts[k] } }

\* Artifact(conversation_id=..., ...): message_id is never passed
ArtifactRows(cid, d) ==
    { [id |-> <<cid, n>>, conversation_id |-> cid, message_id |-> NoId] :
        n \in 1..Len(d.artifacts) }

NoRows == [conversations |-> {}, messages |-> {}, artifacts |-> {}]

\* ------------------------------------------------------------ the database
\* the lookup by native id alone
SameNativeId(c, p, pcid) == c.provider_conversation_id = pcid

SameKey(c, p, pcid) == c.provider_id = p /\ c.provider_conversation_id = pcid
\* db.query(Conversation).filter(provider_id == .., provider_conversation_id == ..).first()
\* (a None operand is rendered IS NULL, so an absent id matches the rows without one)
Existing(p, pcid) == \E c \in conversations : SameKey(c, p, pcid)
\* the conversations table without uq_provider_conversation
NoUniqueConstraint(row) == FALSE

\* uq_provider_conversation: NULLs are distinct under a unique constraint
UniqueViolation(row) ==
    /\ row.provider_conversation_id # NULL
    /\ \E c \in conversations : SameKey(c, row.provider_id, row.provider_conversation_id)
\* an INSERT waits while another transaction holds an uncommitted row of the same key
InsertWaits(j, row) ==
    /\ row.provider_conversation_id # NULL
    /\ \E o \in JobIds \ {j} : \E c \in run[o].pending.conversations :
          SameKey(c, row.provider_id, row.provider_conversation_id)

\* ------------------------------------------------------------------- state
\* no POST /import-jobs request is between its checks and its commit
NoRequest ==
    [pc |-> "none", provider_id |-> 0, api_key_id |-> 0, from_date |-> NoDate, to_date |-> NoDate]

IdleRun ==
    [pc |-> "none", api_key |-> "", adapter |-> "", options |-> {},
     summaries |-> << >>, i |-> 0,
     conversations_count |-> 0, messages_count |-> 0, artifacts_count |-> 0,
     errors |-> << >>, conv_detail |-> NoDetail, pending |-> NoRows]

Init ==
    /\ key_seq = 0
    /\ encryption_key = 1
    /\ clock = 1
    /\ api_keys = << >>
    /\ import_jobs = << >>
    /\ conversations = {}
    /\ messages = {}
    /\ artifacts = {}
    /\ run = [j \in JobIds |-> IdleRun]
    /\ adapter_log = [j \in JobIds |-> << >>]
    /\ outcome = [j \in JobIds |-> << >>]
    /\ registry = DefaultRegistry
    /\ register_calls = << >>
    /\ lookup = NoLookup
    /\ request = NoRequest

Terminated(j) == run[j].pc \in {"none", "done", "crashed"}


\* ---------------------------------------------------------- api_keys.py
\* create_api_key: the provider exists, the value is stored encrypted
create_api_key(p, plain) ==
    /\ key_seq < MaxKeys
    /\ p \in Providers
    /\ LET k == key_seq + 1
       IN api_keys' = [x \in DOMAIN api_keys \cup {k} |->
                          IF x = k THEN NewKey(p, plain) ELSE api_keys[x]]
    /\ key_seq' = key_seq + 1
    /\ UNCHANGED <<regvars, request, encryption_key, clock, import_jobs, conversations, messages,
                   artifacts, run, adapter_log, outcome>>

\* update_api_key that also fails the unfinished jobs of a key it deactivates
update_api_key_fails_jobs(k, has_is_active, is_active) ==
    /\ k \in DOMAIN api_keys
    /\ api_keys' = [api_keys EXCEPT ![k].is_active =
                        IF has_is_active THEN is_active ELSE @]
    /\ import_jobs' = [j \in DOMAIN import_jobs |->
                          IF /\ has_is_active /\ ~is_active
                             /\ import_jobs[j].api_key_id = k
                             /\ import_jobs[j].status = "running"
                          THEN [import_jobs[j] EXCEPT !.status = "failed",
                                                      !.error_details = Str("API key is not active"),
                                                      !.finished_at = clock]
                          ELSE import_jobs[j]]
    /\ UNCHANGED <<regvars, request, key_seq, encryption_key, clock, conversations, messages,
                   artifacts, run, adapter_log, outcome>>

\* update_api_key: is_active is written when the request carries it
\* (the label column is read by no operation of the pipeline and is left out)
update_api_key(k, has_is_active, is_active) ==
    /\ k \in DOMAIN api_keys
    /\ api_keys' = [api_keys EXCEPT ![k].is_active =
                        IF has_is_active THEN is_active ELSE @]
    /\ UNCHANGED <<regvars, request, key_seq, encryption_key, clock, import_jobs, conversations, messages,
                   artifacts, run, adapter_log, outcome>>

\* delete_api_key: import_jobs.api_key_id is NOT NULL and references api_keys.id,
\* so the commit raises for a key some import job refers to and nothing changes
delete_api_key(k) ==
    /\ k \in DOMAIN api_keys
    /\ \A j \in DOMAIN import_jobs : import_jobs[j].api_key_id # k
    /\ api_keys' = [x \in DOMAIN api_keys \ {k} |-> api_keys[x]]
    /\ UNCHANGED <<regvars, request, key_seq, encryption_key, clock, import_jobs, conversations, messages,
                   artifacts, run, adapter_log, outcome>>

\* The process is started again with a fresh ENCRYPTION_KEY (Settings is read
\* once per process, and provider_registry is built anew); background tasks do
\* not survive a restart.  With no
\* credential stored the change cannot be observed and is left out.
Restart(secret) ==
    /\ secret \in Secrets
    /\ secret > encryption_key
    /\ api_keys # << >>
    /\ \A j \in JobIds : Terminated(j)
    /\ request.pc = "none"
    /\ encryption_key' = secret
    /\ registry' = DefaultRegistry /\ register_calls' = << >> /\ lookup' = NoLookup
    /\ UNCHANGED <<request, key_seq, clock, api_keys, import_jobs, conversations, messages,
                   artifacts, run, adapter_log, outcome>>

\* -------------------------------------------------------- import_jobs.py
\* the status code of POST /import-jobs: lines 213-223
create_import_job_status(p, k) ==
    IF k \notin DOMAIN api_keys THEN 404
    ELSE IF ~api_keys[k].is_active THEN 400
    ELSE IF p \notin Providers THEN 404
    ELSE 200

\* lines 213-230 of this thread's request, kept until its commit
Checked(p, k, from, to) ==
    [pc |-> "insert", provider_id |-> p, api_key_id |-> k, from_date |-> from, to_date |-> to]

\* create_import_job without the is_active check of lines 216-217
create_import_job_any_key(p, k, from, to) ==
    /\ request.pc = "none"
    /\ Cardinality(DOMAIN import_jobs) < MaxJobs
    /\ k \in DOMAIN api_keys
    /\ p \in Providers
    /\ request' = Checked(p, k, from, to)
    /\ UNCHANGED <<regvars, key_seq, encryption_key, clock, api_keys, import_jobs, conversations,
                   messages, artifacts, run, adapter_log, outcome>>

\* create_import_job, lines 213-230: 404/400 unless the key exists and is active
\* and the provider exists (a rejected request changes nothing); the endpoint runs
\* in a worker thread, and other requests are served before it reaches line 241
create_import_job(p, k, from, to) ==
    /\ request.pc = "none"
    /\ Cardinality(DOMAIN import_jobs) < MaxJobs
    /\ create_import_job_status(p, k) = 200
    /\ request' = Checked(p, k, from, to)
    /\ UNCHANGED <<regvars, key_seq, encryption_key, clock, api_keys, import_jobs, conversations,
                   messages, artifacts, run, adapter_log, outcome>>

\* lines 232-249 awaiting the first lines of run_import_job before they return
create_import_job_commit_awaits ==
    /\ request.pc = "insert"
    /\ request' = NoRequest
    /\ IF request.api_key_id \in DOMAIN api_keys
       THEN LET j == Cardinality(DOMAIN import_jobs) + 1
                k == request.api_key_id
            IN /\ import_jobs' = [x \in DOMAIN import_jobs \cup {j} |->
                                     IF x = j THEN NewJob(request.provider_id, k,
                                                          request.from_date, request.to_date)
                                              ELSE import_jobs[x]]
               /\ run' = [run EXCEPT ![j] =
                             [IdleRun EXCEPT !.pc = "list",
                                             !.api_key = decrypt_api_key(api_keys[k].key_encrypted),
                                             !.adapter = ProviderName(request.provider_id)]]
       ELSE UNCHANGED <<import_jobs, run>>
    /\ UNCHANGED <<regvars, key_seq, encryption_key, clock, api_keys, conversations, messages,
                   artifacts, adapter_log, outcome>>

\* lines 232-249 as a retry that takes up the finished job of the same provider
\* and key again instead of adding a job
create_import_job_commit_reopens ==
    /\ request.pc = "insert"
    /\ request' = NoRequest
    /\ IF request.api_key_id \in DOMAIN api_keys
       THEN LET old == { j \in DOMAIN import_jobs :
                            /\ import_jobs[j].provider_id = request.provider_id
                            /\ import_jobs[j].api_key_id = request.api_key_id
                            /\ run[j].pc = "done" }
                j == IF old # {} THEN CHOOSE x \in old : TRUE
                                 ELSE Cardinality(DOMAIN import_jobs) + 1
            IN /\ import_jobs' = [x \in DOMAIN import_jobs \cup {j} |->
                                     IF x = j THEN NewJob(request.provider_id, request.api_key_id,
                                                          request.from_date, request.to_date)
                                              ELSE import_jobs[x]]
               /\ run' = [run EXCEPT ![j] = [IdleRun EXCEPT !.pc = "queued"]]
       ELSE UNCHANGED <<import_jobs, run>>
    /\ UNCHANGED <<regvars, key_seq, encryption_key, clock, api_keys, conversations, messages,
                   artifacts, adapter_log, outcome>>

\* create_import_job, lines 232-249: the job row is committed as running and the
\* task is queued; import_jobs.api_key_id references api_keys.id, so the commit
\* raises (and the request ends with no job) when the key was deleted meanwhile
create_import_job_commit ==
    /\ request.pc = "insert"
    /\ request' = NoRequest
    /\ IF request.api_key_id \in DOMAIN api_keys
       THEN LET j == Cardinality(DOMAIN import_jobs) + 1 IN
              /\ import_jobs' = [x \in DOMAIN import_jobs \cup {j} |->
                                    IF x = j THEN NewJob(request.provider_id, request.api_key_id,
                                                         request.from_date, request.to_date)
                                             ELSE import_jobs[x]]
              /\ run' = [run EXCEPT ![j] = [IdleRun EXCEPT !.pc = "queued"]]
       ELSE UNCHANGED <<import_jobs, run>>
    /\ UNCHANGED <<regvars, key_seq, encryption_key, clock, api_keys, conversations, messages,
                   artifacts, adapter_log, outcome>>

\* lines 150-163 reporting the rows the store holds for the listed conversations
FinishedJobCountsStore(job, r) ==
    [job EXCEPT !.status = IF r.errors = << >> THEN "success" ELSE "partial",
                !.conversations_imported = Len(r.summaries),
                !.messages_imported = r.messages_count,
                !.artifacts_imported = r.artifacts_count,
                !.summary = SummaryText(Len(r.summaries), r.messages_count, r.artifacts_count),
                !.error_details = IF r.errors # << >> THEN Take(r.errors, ErrorCap) ELSE @,
                !.finished_at = clock]

\* the failing paths without job.finished_at = datetime.now()
FailedJobUnstamped(job, text) ==
    [job EXCEPT !.status = "failed", !.error_details = text]

\* job.status = "failed"; job.error_details = ...; job.finished_at = now; db.commit()
FailedJob(job, text) ==
    [job EXCEPT !.status = "failed", !.error_details = text, !.finished_at = clock]

\* after the i-th summary: the loop goes on, or line 150 is reached
AfterItem(r) ==
    [r EXCEPT !.i = r.i + 1,
              !.pc = IF r.i + 1 > Len(r.summaries) THEN "finalize" ELSE "fetch",
              !.conv_detail = NoDetail,
              !.pending = NoRows]

\* the handler of lines 145-148 with break in the place of continue
ItemFailedBreaks(r, msg) ==
    [r EXCEPT !.errors = Append(r.errors, ItemError(r.summaries[r.i], msg)),
              !.i = r.i + 1, !.pc = "finalize", !.conv_detail = NoDetail, !.pending = NoRows]

\* the handler of lines 145-148 with errors.insert(0, ...) in the place of append
ItemFailedPrepends(r, msg) ==
    AfterItem([r EXCEPT !.errors = <<ItemError(r.summaries[r.i], msg)>> \o r.errors])

\* the handler of lines 145-148 recording str(e) without the summary's id
ItemFailedUnnamed(r, msg) ==
    AfterItem([r EXCEPT !.errors = Append(r.errors, Line(NoConv, msg))])

\* except Exception as e: errors.append(...); db.rollback(); continue
ItemFailed(r, msg) ==
    AfterItem([r EXCEPT !.errors = Append(r.errors, ItemError(r.summaries[r.i], msg))])

\* run_import_job, lines 32-69: the job, its key, decryption, provider, adapter
RunStart(j) ==
    /\ run[j].pc = "queued"
    /\ LET job == import_jobs[j] IN
       IF job.api_key_id \notin DOMAIN api_keys THEN
            /\ import_jobs' = [import_jobs EXCEPT ![j] = FailedJob(job, Str("API key not found"))]
            /\ clock' = clock + 1
            /\ run' = [run EXCEPT ![j].pc = "done"]
       ELSE IF DecryptRaises(api_keys[job.api_key_id].key_encrypted) THEN
            \* the exception leaves run_import_job through finally: db.close()
            /\ run' = [run EXCEPT ![j].pc = "crashed"]
            /\ UNCHANGED <<import_jobs, clock>>
       ELSE IF job.provider_id \notin Providers THEN
            /\ import_jobs' = [import_jobs EXCEPT ![j] = FailedJob(job, Str("Provider not found"))]
            /\ clock' = clock + 1
            /\ run' = [run EXCEPT ![j].pc = "done"]
       ELSE IF GetAdapterRaises(ProviderName(job.provider_id)) THEN
            /\ import_jobs' = [import_jobs EXCEPT ![j] =
                                  FailedJob(job, UnknownProvider(ProviderName(job.provider_id)))]
            /\ clock' = clock + 1
            /\ run' = [run EXCEPT ![j].pc = "done"]
       ELSE
            /\ run' = [run EXCEPT ![j].pc = "list",
                                  ![j].api_key = decrypt_api_key(api_keys[job.api_key_id].key_encrypted),
                                  ![j].adapter = ProviderName(job.provider_id),
                                  ![j].options = Options(job.requested_range)]
            /\ UNCHANGED <<import_jobs, clock>>
    /\ UNCHANGED <<regvars, request, key_seq, encryption_key, api_keys, conversations, messages, artifacts,
                   adapter_log, outcome>>

\* line 79, list_conversations returns
RunListOk(j, summaries) ==
    /\ run[j].pc = "list"
    /\ run' = [run EXCEPT ![j].summaries = summaries,
                          ![j].i = 1,
                          ![j].pc = IF Len(summaries) = 0 THEN "finalize" ELSE "fetch"]
    /\ adapter_log' = [adapter_log EXCEPT ![j] = Append(@, ListCall(TRUE))]
    /\ UNCHANGED <<regvars, request, key_seq, encryption_key, clock, api_keys, import_jobs, conversations,
                   messages, artifacts, outcome>>

\* the handler of lines 165-169 with line 161 copied into it
RunListRaisesStampsKey(j, msg, recorded) ==
    /\ run[j].pc = "list"
    /\ import_jobs' = [import_jobs EXCEPT ![j] = FailedJob(@, Str(msg))]
    /\ api_keys' = [api_keys EXCEPT ![import_jobs[j].api_key_id].last_used_at = clock]
    /\ clock' = clock + 1
    /\ run' = [run EXCEPT ![j].pc = "done"]
    /\ adapter_log' = [adapter_log EXCEPT ![j] = Append(@, ListCall(FALSE))]
    /\ UNCHANGED <<regvars, request, key_seq, encryption_key, conversations, messages, artifacts, outcome>>

\* except Exception as e (lines 165-169): the job is recorded as failed with
\* str(e), or, when the commit of line 169 raises as well, the exception leaves
\* run_import_job and the row stays as it was
Handled(j, msg, recorded) ==
    IF recorded
    THEN /\ import_jobs' = [import_jobs EXCEPT ![j] = FailedJob(@, Str(msg))]
         /\ clock' = clock + 1
    ELSE UNCHANGED <<import_jobs, clock>>

\* the pc after the handler of lines 165-169
AfterHandler(recorded) == IF recorded THEN "done" ELSE "crashed"

\* line 79 raises: the handler of lines 165-169
RunListRaises(j, msg, recorded) ==
    /\ run[j].pc = "list"
    /\ Handled(j, msg, recorded)
    /\ run' = [run EXCEPT ![j].pc = AfterHandler(recorded)]
    /\ adapter_log' = [adapter_log EXCEPT ![j] = Append(@, ListCall(FALSE))]
    /\ UNCHANGED <<regvars, request, key_seq, encryption_key, api_keys, conversations, messages, artifacts, outcome>>

\* lines 84-87 raise with no try around the item: the handler of lines 165-169
RunFetchRaisesFatal(j, msg) ==
    /\ run[j].pc = "fetch"
    /\ import_jobs' = [import_jobs EXCEPT ![j] = FailedJob(@, Str(msg))]
    /\ clock' = clock + 1
    /\ run' = [run EXCEPT ![j].pc = "done"]
    /\ adapter_log' = [adapter_log EXCEPT ![j] =
                          Append(@, FetchCall(run[j].summaries[run[j].i], FALSE, NoDetail))]
    /\ outcome' = [outcome EXCEPT ![j] = Append(@, "error")]
    /\ UNCHANGED <<regvars, request, key_seq, encryption_key, api_keys, conversations, messages, artifacts>>

\* lines 84-87 raise
RunFetchRaises(j, msg) ==
    /\ run[j].pc = "fetch"
    /\ run' = [run EXCEPT ![j] = ItemFailed(@, msg)]
    /\ adapter_log' = [adapter_log EXCEPT ![j] =
                          Append(@, FetchCall(run[j].summaries[run[j].i], FALSE, NoDetail))]
    /\ outcome' = [outcome EXCEPT ![j] = Append(@, "error")]
    /\ UNCHANGED <<regvars, request, key_seq, encryption_key, clock, api_keys, import_jobs, conversations,
                   messages, artifacts>>

\* lines 84-97 as an upsert: the stored conversation takes the fetched title
RunFetchOkUpserts(j, d) ==
    /\ run[j].pc = "fetch"
    /\ d \in Details(run[j].adapter, run[j].summaries[run[j].i])
    /\ adapter_log' = [adapter_log EXCEPT ![j] =
                          Append(@, FetchCall(run[j].summaries[run[j].i], TRUE, d))]
    /\ IF Existing(import_jobs[j].provider_id, d.provider_conversation_id)
       THEN /\ run' = [run EXCEPT ![j] = AfterItem(@)]
            /\ outcome' = [outcome EXCEPT ![j] = Append(@, "skipped")]
            /\ conversations' =
                  { IF SameKey(c, import_jobs[j].provider_id, d.provider_conversation_id)
                       THEN [c EXCEPT !.title = d.title] ELSE c : c \in conversations }
       ELSE /\ run' = [run EXCEPT ![j].conv_detail = d, ![j].pc = "flush"]
            /\ UNCHANGED <<outcome, conversations>>
    /\ UNCHANGED <<regvars, request, key_seq, encryption_key, clock, api_keys, import_jobs, messages, artifacts>>

\* lines 84-97: fetch_conversation returns, then the duplicate check
RunFetchOk(j, d) ==
    /\ run[j].pc = "fetch"
    /\ d \in Details(run[j].adapter, run[j].summaries[run[j].i])
    /\ adapter_log' = [adapter_log EXCEPT ![j] =
                          Append(@, FetchCall(run[j].summaries[run[j].i], TRUE, d))]
    /\ IF Existing(import_jobs[j].provider_id, d.provider_conversation_id)
       THEN /\ run' = [run EXCEPT ![j] = AfterItem(@)]
            /\ outcome' = [outcome EXCEPT ![j] = Append(@, "skipped")]
       ELSE /\ run' = [run EXCEPT ![j].conv_detail = d, ![j].pc = "flush"]
            /\ UNCHANGED outcome
    /\ UNCHANGED <<regvars, request, key_seq, encryption_key, clock, api_keys, import_jobs, conversations,
                   messages, artifacts>>

\* lines 84-93 and 145-148: fetch_conversation returns and the duplicate query
\* raises; the item is recorded as failed and the loop goes on
RunQueryRaises(j, d, msg) ==
    /\ run[j].pc = "fetch"
    /\ d \in Details(run[j].adapter, run[j].summaries[run[j].i])
    /\ run' = [run EXCEPT ![j] = ItemFailed(@, msg)]
    /\ adapter_log' = [adapter_log EXCEPT ![j] =
                          Append(@, FetchCall(run[j].summaries[run[j].i], TRUE, d))]
    /\ outcome' = [outcome EXCEPT ![j] = Append(@, "error")]
    /\ UNCHANGED <<regvars, request, key_seq, encryption_key, clock, api_keys, import_jobs, conversations,
                   messages, artifacts>>

\* lines 100-141 with line 112 left out
FlushedUncounted(r, row, d) ==
    [r EXCEPT !.pc = "commit",
              !.pending = [conversations |-> {row},
                           messages |-> MessageRows(row.id, d),
                           artifacts |-> ArtifactRows(row.id, d)],
              !.messages_count = r.messages_count + Len(d.messages),
              !.artifacts_count = r.artifacts_count + Len(d.artifacts)]

\* lines 100-141 when db.flush() returns: the conversation row is inserted in the
\* run's transaction, its messages and artifacts are added to the session
Flushed(r, row, d) ==
    [r EXCEPT !.pc = "commit",
              !.pending = [conversations |-> {row},
                           messages |-> MessageRows(row.id, d),
                           artifacts |-> ArtifactRows(row.id, d)],
              !.conversations_count = r.conversations_count + 1,
              !.messages_count = r.messages_count + Len(d.messages),
              !.artifacts_count = r.artifacts_count + Len(d.artifacts)]

\* lines 100-141: db.add(conversation); db.flush(); the loops over messages and artifacts
RunFlush(j) ==
    /\ run[j].pc = "flush"
    /\ LET row == ConversationRow(j, run[j].i, import_jobs[j].provider_id, run[j].conv_detail) IN
         /\ ~InsertWaits(j, row)
         /\ IF UniqueViolation(row)
            THEN \* IntegrityError
                 /\ run' = [run EXCEPT ![j] = ItemFailed(@, "duplicate key value")]
                 /\ outcome' = [outcome EXCEPT ![j] = Append(@, "error")]
            ELSE /\ run' = [run EXCEPT ![j] = Flushed(@, row, run[j].conv_detail)]
                 /\ UNCHANGED outcome
    /\ UNCHANGED <<regvars, request, key_seq, encryption_key, clock, api_keys, import_jobs, conversations,
                   messages, artifacts, adapter_log>>

\* db.flush() raises in a run that keeps one transaction for all its items: the
\* rollback of line 147 takes the rows of the earlier items with it
RunFlushRaisesUndoesRun(j, msg) ==
    /\ run[j].pc = "flush"
    /\ run' = [run EXCEPT ![j] = ItemFailed(@, msg)]
    /\ outcome' = [outcome EXCEPT ![j] = Append(@, "error")]
    /\ conversations' = { c \in conversations : c.import_job_id # j }
    /\ messages' = { m \in messages : m.conversation_id[1] # j }
    /\ artifacts' = { x \in artifacts : x.conversation_id[1] # j }
    /\ UNCHANGED <<regvars, request, key_seq, encryption_key, clock, api_keys, import_jobs, adapter_log>>

\* db.flush() raises for a reason of the database's own
RunFlushRaises(j, msg) ==
    /\ run[j].pc = "flush"
    /\ run' = [run EXCEPT ![j] = ItemFailed(@, msg)]
    /\ outcome' = [outcome EXCEPT ![j] = Append(@, "error")]
    /\ UNCHANGED <<regvars, request, key_seq, encryption_key, clock, api_keys, import_jobs, conversations,
                   messages, artifacts, adapter_log>>

\* line 143: the transaction's rows become visible together
RunCommit(j) ==
    /\ run[j].pc = "commit"
    /\ conversations' = conversations \cup run[j].pending.conversations
    /\ messages' = messages \cup run[j].pending.messages
    /\ artifacts' = artifacts \cup run[j].pending.artifacts
    /\ run' = [run EXCEPT ![j] = AfterItem(@)]
    /\ outcome' = [outcome EXCEPT ![j] = Append(@, "imported")]
    /\ UNCHANGED <<regvars, request, key_seq, encryption_key, clock, api_keys, import_jobs, adapter_log>>

\* line 143 raises in a session that commits at every flush: the conversation
\* row of line 110 stays, its messages and artifacts are lost
RunCommitRaisesAfterAutocommit(j, msg) ==
    /\ run[j].pc = "commit"
    /\ conversations' = conversations \cup run[j].pending.conversations
    /\ run' = [run EXCEPT ![j] = ItemFailed(@, msg)]
    /\ outcome' = [outcome EXCEPT ![j] = Append(@, "error")]
    /\ UNCHANGED <<regvars, request, key_seq, encryption_key, clock, api_keys, import_jobs, messages,
                   artifacts, adapter_log>>

\* line 143 raises (the message and artifact INSERTs are sent here): rollback
RunCommitRaises(j, msg) ==
    /\ run[j].pc = "commit"
    /\ run' = [run EXCEPT ![j] = ItemFailed(@, msg)]
    /\ outcome' = [outcome EXCEPT ![j] = Append(@, "error")]
    /\ UNCHANGED <<regvars, request, key_seq, encryption_key, clock, api_keys, import_jobs, conversations,
                   messages, artifacts, adapter_log>>

\* lines 151-158 with a status that looks at the counters: a run that imported
\* nothing and recorded errors is failed
FinishedJobByCount(job, r) ==
    [job EXCEPT !.status = IF r.conversations_count = 0 /\ r.errors # << >> THEN "failed"
                           ELSE IF r.errors = << >> THEN "success" ELSE "partial",
                !.conversations_imported = r.conversations_count,
                !.messages_imported = r.messages_count,
                !.artifacts_imported = r.artifacts_count,
                !.summary = SummaryText(r.conversations_count, r.messages_count,
                                        r.artifacts_count),
                !.error_details = IF r.errors # << >> THEN Take(r.errors, ErrorCap) ELSE @,
                !.finished_at = clock]

\* lines 151-158
FinishedJob(job, r) ==
    [job EXCEPT !.status = IF r.errors = << >> THEN "success" ELSE "partial",
                !.conversations_imported = r.conversations_count,
                !.messages_imported = r.messages_count,
                !.artifacts_imported = r.artifacts_count,
                !.summary = SummaryText(r.conversations_count, r.messages_count,
                                        r.artifacts_count),
                !.error_details = IF r.errors # << >> THEN Take(r.errors, ErrorCap) ELSE @,
                !.finished_at = clock]

\* lines 150-163: finished_at and last_used_at are two readings of the clock,
\* the second one the same or later
RunFinalize(j, later) ==
    /\ run[j].pc = "finalize"
    /\ later \in {0, 1}
    /\ import_jobs' = [import_jobs EXCEPT ![j] = FinishedJob(@, run[j])]
    /\ api_keys' = [api_keys EXCEPT ![import_jobs[j].api_key_id].last_used_at = clock + later]
    /\ clock' = clock + 1
    /\ run' = [run EXCEPT ![j].pc = "done"]
    /\ UNCHANGED <<regvars, request, key_seq, encryption_key, conversations, messages, artifacts, adapter_log, outcome>>

\* the commit of line 163 raises inside the try of line 77: the writes of lines
\* 151-161 are not committed; the handler of lines 165-169 sets its fields on a
\* session whose transaction has failed and calls no rollback, so its commit of
\* line 169 raises as well and the exception leaves run_import_job with the job
\* row as it was
RunFinalizeRaises(j, msg) ==
    /\ run[j].pc = "finalize"
    /\ run' = [run EXCEPT ![j].pc = "crashed"]
    /\ UNCHANGED <<regvars, request, key_seq, encryption_key, clock, api_keys, import_jobs,
                   conversations, messages, artifacts, adapter_log, outcome>>

\* the session of run j has a transaction open when the next item is fetched:
\* the reads of lines 32-64 opened one before the first item, and the duplicate
\* query of an item that was skipped opened one that line 97 left open; the
\* commit of line 143 and the rollback of line 147 close theirs
TxOpen(j) == IF outcome[j] = << >> THEN TRUE ELSE outcome[j][Len(outcome[j])] = "skipped"

\* fetch_conversation raises while a transaction is open, the item's error is
\* appended and db.rollback() of line 147 raises (the connection is gone): the
\* exception leaves the loop for the handler of lines 165-169
RunRollbackRaises(j, fetchmsg, msg, recorded) ==
    /\ run[j].pc = "fetch"
    /\ TxOpen(j)
    /\ Handled(j, msg, recorded)
    /\ run' = [run EXCEPT ![j].pc = AfterHandler(recorded),
                          ![j].errors = Append(@, ItemError(run[j].summaries[run[j].i], fetchmsg))]
    /\ adapter_log' = [adapter_log EXCEPT ![j] =
                          Append(@, FetchCall(run[j].summaries[run[j].i], FALSE, NoDetail))]
    /\ outcome' = [outcome EXCEPT ![j] = Append(@, "error")]
    /\ UNCHANGED <<regvars, request, key_seq, encryption_key, api_keys, conversations, messages,
                   artifacts>>

\* ------------------------------------------------------- ProviderRegistry
\* register that keeps the adapter already stored under the name (setdefault)
register_keeps_first(adapter) ==
    /\ Len(register_calls) < MaxRegisterCalls
    /\ registry' = [n \in DOMAIN registry \cup {adapter.provider_name} |->
                       IF n \in DOMAIN registry THEN registry[n] ELSE adapter]
    /\ register_calls' = Append(register_calls, adapter)
    /\ UNCHANGED <<key_seq, encryption_key, clock, api_keys, import_jobs, conversations,
                   messages, artifacts, run, adapter_log, outcome, lookup, request>>

\* register: self._adapters[adapter.provider_name] = adapter
register(adapter) ==
    /\ Len(register_calls) < MaxRegisterCalls
    /\ registry' = [n \in DOMAIN registry \cup {adapter.provider_name} |->
                       IF n = adapter.provider_name THEN adapter ELSE registry[n]]
    /\ register_calls' = Append(register_calls, adapter)
    /\ UNCHANGED <<key_seq, encryption_key, clock, api_keys, import_jobs, conversations,
                   messages, artifacts, run, adapter_log, outcome, lookup, request>>

\* get_adapter: the stored adapter, or ValueError for a name that is not a key
get_adapter(name) ==
    /\ lookup' = IF name \notin DOMAIN registry
                  THEN [name |-> name, raised |-> ValueError(name), returned |-> NotAnAdapter]
                  ELSE [name |-> name, raised |-> NULL, returned |-> registry[name]]
    /\ UNCHANGED <<key_seq, encryption_key, clock, api_keys, import_jobs, conversations,
                   messages, artifacts, run, adapter_log, outcome, registry, register_calls, request>>

\* list_providers: list(self._adapters.keys())
list_providers == DOMAIN registry

\* ----------------------------------------------------------- read endpoints
\* conversation.messages, a relationship without order_by: the rows of one
\* conversation in whatever order the database returns them
LoadOrders(rows) ==
    { s \in [1..Cardinality(rows) -> rows] : \A x \in rows : \E n \in DOMAIN s : s[n] = x }

\* one step of Python's stable sort: m goes after every element whose key is not greater
InsertBySequenceIndex(s, m) ==
    LET k == Cardinality({ n \in 1..Len(s) : s[n].sequence_index <= m.sequence_index })
    IN  SubSeq(s, 1, k) \o <<m>> \o SubSeq(s, k + 1, Len(s))

\* sorted(conversation.messages, key=lambda m: m.sequence_index)
RECURSIVE SortedBySequenceIndex(_)
SortedBySequenceIndex(s) ==
    IF s = << >> THEN << >>
    ELSE InsertBySequenceIndex(SortedBySequenceIndex(SubSeq(s, 1, Len(s) - 1)), s[Len(s)])

\* the messages in the order the relationship loaded them
get_conversation_unsorted(cid, loaded) == [id |-> cid, messages |-> loaded]

\* GET /conversations/{id}: the messages of the ConversationDetail response
get_conversation(cid, loaded) == [id |-> cid, messages |-> SortedBySequenceIndex(loaded)]

\* GET /conversations/{id}/export-markdown: the message blocks of the document
export_conversation_to_markdown(cid, loaded) ==
    [n \in 1..Len(loaded) |-> SortedBySequenceIndex(loaded)[n].sequence_index]

\* GET /import-jobs/{job_id}: the committed row, or 404
get_import_job(j) == IF j \in DOMAIN import_jobs THEN import_jobs[j] ELSE NULL

\* ------------------------------------------------------------ request sets
KeyProviders == {1}
JobProviders == {1}
Ranges == { <<1, NoDate>> }
FetchErrors == {"timeout"}
DbErrors == {"connection lost"}
\* OpenAIAdapter.list_conversations and AnthropicAdapter.list_conversations: return []
PlaceholderLists == { << >> }

\* Every operation of the program.  The adapter of the first job lists
\* conversations; the adapter of every later job lists none, as the adapters of
\* the repository do.
Next ==
    \/ \E p \in KeyProviders, plain \in PlainKeys : create_api_key(p, plain)
    \/ \E k \in KeyIds, h \in BOOLEAN, a \in BOOLEAN : update_api_key(k, h, a)
    \/ \E k \in KeyIds : delete_api_key(k)
    \/ \E s \in Secrets : Restart(s)
    \/ \E p \in JobProviders, k \in KeyIds, range \in Ranges :
          create_import_job(p, k, range[1], range[2])
    \/ create_import_job_commit
    \/ \E j \in JobIds : RunStart(j)
    \/ \E s \in SummaryLists : RunListOk(1, s)
    \/ \E j \in JobIds \ {1}, s \in PlaceholderLists : RunListOk(j, s)
    \/ \E j \in JobIds, m \in ExcMessages, rec \in BOOLEAN : RunListRaises(j, m, rec)
    \/ \E j \in JobIds, m \in FetchErrors : RunFetchRaises(j, m)
    \/ \E j \in JobIds, d \in AllDetails : RunFetchOk(j, d)
    \/ \E j \in JobIds, d \in AllDetails, m \in DbErrors : RunQueryRaises(j, d, m)
    \/ \E j \in JobIds : RunFlush(j)
    \/ \E j \in JobIds, m \in DbErrors : RunFlushRaises(j, m)
    \/ \E j \in JobIds : RunCommit(j)
    \/ \E j \in JobIds, m \in DbErrors : RunCommitRaises(j, m)
    \/ \E j \in JobIds, later \in {0, 1} : RunFinalize(j, later)
    \/ \E j \in JobIds, m \in DbErrors : RunFinalizeRaises(j, m)
    \/ \E j \in JobIds, f \in FetchErrors, m \in DbErrors, rec \in BOOLEAN :
          RunRollbackRaises(j, f, m, rec)

Spec == Init /\ [][Next]_vars

\* ------------------------------------------------- runs side by side
\* The same program with the background tasks of all jobs running, their
\* database statements interleaved, on one credential that stays as created.
NextConcurrent ==
    \/ \E p \in KeyProviders, plain \in PlainKeys : create_api_key(p, plain)
    \/ \E p \in JobProviders, k \in KeyIds, range \in Ranges :
          create_import_job(p, k, range[1], range[2])
    \/ create_import_job_commit
    \/ \E j \in JobIds : RunStart(j)
    \/ \E j \in JobIds, s \in SummaryLists : RunListOk(j, s)
    \/ \E j \in JobIds, m \in FetchErrors, rec \in BOOLEAN : RunListRaises(j, m, rec)
    \/ \E j \in JobIds, m \in FetchErrors : RunFetchRaises(j, m)
    \/ \E j \in JobIds, d \in ShortDetails : RunFetchOk(j, d)
    \/ \E j \in JobIds, d \in ShortDetails, m \in DbErrors : RunQueryRaises(j, d, m)
    \/ \E j \in JobIds : RunFlush(j)
    \/ \E j \in JobIds, m \in DbErrors : RunFlushRaises(j, m)
    \/ \E j \in JobIds : RunCommit(j)
    \/ \E j \in JobIds, m \in DbErrors : RunCommitRaises(j, m)
    \/ \E j \in JobIds, later \in {0, 1} : RunFinalize(j, later)
    \/ \E j \in JobIds, m \in DbErrors : RunFinalizeRaises(j, m)
    \/ \E j \in JobIds, f \in FetchErrors, m \in DbErrors, rec \in BOOLEAN :
          RunRollbackRaises(j, f, m, rec)

SpecConcurrent == Init /\ [][NextConcurrent]_vars

\* ------------------------------------------------- a list that repeats an id
\* The same program on a provider whose listing names conversation "a" twice
\* and then "b"; the adapter of every later job lists none.
RepeatLists == { <<"a", "a", "b">> }

NextRepeat ==
    \/ \E p \in KeyProviders, plain \in PlainKeys : create_api_key(p, plain)
    \/ \E p \in JobProviders, k \in KeyIds, range \in Ranges :
          create_import_job(p, k, range[1], range[2])
    \/ create_import_job_commit
    \/ \E j \in JobIds : RunStart(j)
    \/ \E s \in RepeatLists : RunListOk(1, s)
    \/ \E j \in JobIds \ {1}, s \in PlaceholderLists : RunListOk(j, s)
    \/ \E j \in JobIds, m \in FetchErrors, rec \in BOOLEAN : RunListRaises(j, m, rec)
    \/ \E j \in JobIds, m \in FetchErrors : RunFetchRaises(j, m)
    \/ \E j \in JobIds, d \in ShortDetails : RunFetchOk(j, d)
    \/ \E j \in JobIds, d \in ShortDetails, m \in DbErrors : RunQueryRaises(j, d, m)
    \/ \E j \in JobIds : RunFlush(j)
    \/ \E j \in JobIds, m \in DbErrors : RunFlushRaises(j, m)
    \/ \E j \in JobIds : RunCommit(j)
    \/ \E j \in JobIds, m \in DbErrors : RunCommitRaises(j, m)
    \/ \E j \in JobIds, later \in {0, 1} : RunFinalize(j, later)
    \/ \E j \in JobIds, m \in DbErrors : RunFinalizeRaises(j, m)
    \/ \E j \in JobIds, f \in FetchErrors, m \in DbErrors, rec \in BOOLEAN :
          RunRollbackRaises(j, f, m, rec)

SpecRepeat == Init /\ [][NextRepeat]_vars

\* ------------------------------------------------- runs with many failures
\* The same program on providers that list more than ErrorCap conversations,
\* "a" and "b" in turn, and whose fetch_conversation raises for every one of them.
LongSummaries ==
    { [n \in 1..k |-> IF n % 2 = 1 THEN "a" ELSE "b"] : k \in {ErrorCap + 1, ErrorCap + 2} }

NextLong ==
    \/ \E p \in KeyProviders, plain \in PlainKeys : create_api_key(p, plain)
    \/ \E p \in KeyProviders, k \in KeyIds, range \in Ranges :
          create_import_job(p, k, range[1], range[2])
    \/ create_import_job_commit
    \/ \E j \in JobIds : RunStart(j)
    \/ \E j \in JobIds, s \in LongSummaries : RunListOk(j, s)
    \/ \E j \in JobIds, m \in FetchErrors : RunFetchRaises(j, m)
    \/ \E j \in JobIds, later \in {0, 1} : RunFinalize(j, later)
    \/ \E j \in JobIds, m \in DbErrors : RunFinalizeRaises(j, m)
    \/ \E j \in JobIds, f \in FetchErrors, m \in DbErrors, rec \in BOOLEAN :
          RunRollbackRaises(j, f, m, rec)

SpecLong == Init /\ [][NextLong]_vars

\* ------------------------------------------------- jobs of two providers
\* The same program with import jobs for both providers that have an adapter,
\* which list the same native ids.
AdapterProviders == { p \in Providers : ProviderName(p) \in RegisteredAdapters }
\* both providers hold one conversation, under the same native id
ProviderLists == SeqsUpTo({"a"}, 1)

NextProviders ==
    \/ \E p \in AdapterProviders, plain \in PlainKeys : create_api_key(p, plain)
    \/ \E p \in AdapterProviders, k \in KeyIds, range \in Ranges :
          create_import_job(p, k, range[1], range[2])
    \/ create_import_job_commit
    \/ \E j \in JobIds : RunStart(j)
    \/ \E j \in JobIds, s \in ProviderLists : RunListOk(j, s)
    \/ \E j \in JobIds, m \in FetchErrors : RunFetchRaises(j, m)
    \/ \E j \in JobIds, d \in ShortDetails : RunFetchOk(j, d)
    \/ \E j \in JobIds, d \in ShortDetails, m \in DbErrors : RunQueryRaises(j, d, m)
    \/ \E j \in JobIds : RunFlush(j)
    \/ \E j \in JobIds, m \in DbErrors : RunFlushRaises(j, m)
    \/ \E j \in JobIds : RunCommit(j)
    \/ \E j \in JobIds, m \in DbErrors : RunCommitRaises(j, m)
    \/ \E j \in JobIds, later \in {0, 1} : RunFinalize(j, later)
    \/ \E j \in JobIds, m \in DbErrors : RunFinalizeRaises(j, m)
    \/ \E j \in JobIds, f \in FetchErrors, m \in DbErrors, rec \in BOOLEAN :
          RunRollbackRaises(j, f, m, rec)

SpecProviders == Init /\ [][NextProviders]_vars

\* ------------------------------------------------- every kind of date range
\* The same program with requests that carry no bound, one bound or both.
AllRanges == { <<from, to>> : from \in {NoDate, 1}, to \in {NoDate, 2} }

NextRanges ==
    \/ \E p \in KeyProviders, plain \in PlainKeys : create_api_key(p, plain)
    \/ \E p \in KeyProviders, k \in KeyIds, range \in AllRanges :
          create_import_job(p, k, range[1], range[2])
    \/ create_import_job_commit
    \/ \E j \in JobIds : RunStart(j)
    \/ \E j \in JobIds, s \in SummaryLists : RunListOk(j, s)
    \/ \E j \in JobIds, m \in ExcMessages, rec \in BOOLEAN : RunListRaises(j, m, rec)
    \/ \E j \in JobIds, m \in FetchErrors : RunFetchRaises(j, m)
    \/ \E j \in JobIds, later \in {0, 1} : RunFinalize(j, later)
    \/ \E j \in JobIds, m \in DbErrors : RunFinalizeRaises(j, m)
    \/ \E j \in JobIds, f \in FetchErrors, m \in DbErrors, rec \in BOOLEAN :
          RunRollbackRaises(j, f, m, rec)

SpecRanges == Init /\ [][NextRanges]_vars

\* ------------------------------------------------- the registry on its own
\* register and get_adapter called in any order on the global registry
AdapterNames == {"openai", "anthropic", "mistral"}
Adapters == { Adapter(n, inst) : n \in AdapterNames, inst \in {1, 2} }
LookupNames == AdapterNames \cup {"gemini"}

NextRegistry ==
    \/ \E a \in Adapters : register(a)
    \/ \E n \in LookupNames : get_adapter(n)

SpecRegistry == Init /\ [][NextRegistry]_vars


\* ------------------------------------------------------------ observations
Jobs == DOMAIN import_jobs
TerminalStatus == {"success", "partial", "failed"}
\* the run has returned from (or been thrown out of) run_import_job
Returned(j) == run[j].pc \in {"done", "crashed"}
ListReturned(j) == adapter_log[j] # << >> /\ adapter_log[j][1].call = "list" /\ adapter_log[j][1].ok
ListRaised(j) == adapter_log[j] # << >> /\ adapter_log[j][1].call = "list" /\ ~adapter_log[j][1].ok
IsFetch(e) == e.call = "fetch"
Fetches(j) == SelectSeq(adapter_log[j], IsFetch)
Items(j, what) == { n \in 1..Len(outcome[j]) : outcome[j][n] = what }
\* the detail the adapter returned for the n-th summary of run j
FetchedDetail(j, n) == Fetches(j)[n].detail
ConversationsOf(j) == { c \in conversations : c.import_job_id = j }
MessagesOf(cid) == { m \in messages : m.conversation_id = cid }
ArtifactsOf(cid) == { a \in artifacts : a.conversation_id = cid }

\* ------------------------------------------------------------------ claims

\* C1: per-item isolation.  Whatever subset of the items raises in
\* fetch_conversation, at the flush or at the commit, the run calls
\* fetch_conversation once for every summary of the list, in list order, and a
\* run one of whose items raised never ends failed.
C1_PerItemIsolation ==
    \A j \in Jobs :
        /\ Len(Fetches(j)) <= Len(run[j].summaries)
        /\ \A n \in 1..Len(Fetches(j)) : Fetches(j)[n].id = run[j].summaries[n]
        /\ (ListReturned(j) /\ run[j].pc \in {"finalize", "done"})
              => Len(Fetches(j)) = Len(run[j].summaries)
        /\ Items(j, "error") # {} => import_jobs[j].status # "failed"

\* a finished run whose first item raised and whose second item was imported
C1_Witness ==
    \E j \in Jobs :
        /\ run[j].pc = "done"
        /\ outcome[j] = <<"error", "imported">>
        /\ Len(Fetches(j)) = 2

\* C2: when list_conversations raises, the run ends failed with
\* conversations_imported = 0 and a non-empty error_details, whatever the exception.
C2_ListFailureRecorded ==
    \A j \in Jobs :
        (ListRaised(j) /\ Returned(j)) =>
            /\ import_jobs[j].status = "failed"
            /\ import_jobs[j].conversations_imported = 0
            /\ TextNonEmpty(import_jobs[j].error_details)

\* C3: when K of the N listed items raise (0 < K < N) and the others are
\* imported, the run ends partial with conversations_imported = N - K and at most
\* ErrorCap lines of error_details, wherever the items failed.
C3_PartialCounts ==
    \A j \in Jobs :
        LET N == Len(run[j].summaries)
            K == Cardinality(Items(j, "error"))
        IN (run[j].pc = "done" /\ ListReturned(j) /\ 0 < K /\ K < N
                /\ Items(j, "skipped") = {}) =>
              /\ import_jobs[j].status = "partial"
              /\ import_jobs[j].conversations_imported = N - K
              /\ Len(import_jobs[j].error_details) <= ErrorCap

\* C4: when all N listed items are imported (none a duplicate, none raising),
\* the run ends success with conversations_imported = N and exactly N
\* conversation rows carry the run's id.
C4_AllImported ==
    \A j \in Jobs :
        LET N == Len(run[j].summaries) IN
        (run[j].pc = "done" /\ ListReturned(j) /\ Cardinality(Items(j, "imported")) = N) =>
            /\ import_jobs[j].status = "success"
            /\ import_jobs[j].conversations_imported = N
            /\ Cardinality(ConversationsOf(j)) = N

\* a finished run that imported both items of a list of two
C4_Witness ==
    \E j \in Jobs :
        /\ run[j].pc = "done"
        /\ outcome[j] = <<"imported", "imported">>
        /\ import_jobs[j].conversations_imported = 2

\* C5: in every state the committed conversations hold at most one row per
\* (provider_id, non-null provider_conversation_id), under any interleaving of runs.
C5_UniqueNativeId ==
    \A c1 \in conversations, c2 \in conversations :
        ( /\ c1.provider_id = c2.provider_id
          /\ c1.provider_conversation_id = c2.provider_conversation_id
          /\ c1.provider_conversation_id # NULL ) => c1 = c2

\* two runs raced for the same native id: one committed it, the other lost at the flush
C5_Witness ==
    \E j \in Jobs : \E n \in 1..Len(run[j].errors) :
        /\ run[j].errors[n].msg = "duplicate key value"
        /\ \E c \in conversations :
              /\ c.import_job_id # j
              /\ c.provider_conversation_id = run[j].errors[n].conv


\* C6: persisting one conversation is atomic.  In every committed state a
\* conversation row is there together with exactly the message and artifact rows
\* of its fetched detail, no message or artifact row is there without its
\* conversation, and an item that raised has left no row of any of the three tables.
C6_AtomicPersist ==
    /\ \A c \in conversations :
          LET d == FetchedDetail(c.id[1], c.id[2]) IN
            /\ MessagesOf(c.id) = MessageRows(c.id, d)
            /\ ArtifactsOf(c.id) = ArtifactRows(c.id, d)
    /\ \A m \in messages : \E c \in conversations : c.id = m.conversation_id
    /\ \A a \in artifacts : \E c \in conversations : c.id = a.conversation_id
    /\ \A j \in Jobs : \A n \in Items(j, "error") :
          /\ \A c \in conversations : c.id # ConvId(j, n)
          /\ MessagesOf(ConvId(j, n)) = {}
          /\ ArtifactsOf(ConvId(j, n)) = {}

\* one run has a conversation with its two messages and its artifact committed,
\* and an item of a run failed at the commit, after its rows had been flushed
C6_Witness ==
    /\ \E c \in conversations :
          Cardinality(MessagesOf(c.id)) = 2 /\ Cardinality(ArtifactsOf(c.id)) = 1
    /\ \E j \in Jobs : \E n \in 1..Len(run[j].errors) :
          /\ run[j].errors[n].msg \in DbErrors
          /\ run[j].conversations_count > Cardinality(ConversationsOf(j))

\* C7: a run that has left run_import_job has put its job in a terminal state:
\* status success, partial or failed, and finished_at set.
C7_RunReachesTerminal ==
    \A j \in Jobs :
        Returned(j) => /\ import_jobs[j].status \in TerminalStatus
                       /\ import_jobs[j].finished_at # NoTime

\* C8: a run in which decrypt_api_key raised (it has left run_import_job by an
\* exception before an adapter was resolved) has failed its job (status failed,
\* finished_at set, a reason recorded) and has called no adapter method.
C8_DecryptFailureFails ==
    \A j \in Jobs :
        (run[j].pc = "crashed" /\ run[j].adapter = "") =>
            /\ import_jobs[j].status = "failed"
            /\ import_jobs[j].finished_at # NoTime
            /\ TextNonEmpty(import_jobs[j].error_details)
            /\ adapter_log[j] = << >>

\* C9: when the run body resolves its credential and the credential is missing
\* or inactive at that moment, the step fails the job with a descriptive error
\* and the run ends without an adapter call.
C9_InactiveCredentialFails ==
    [][ \A j \in JobIds :
          ( /\ run[j].pc = "queued"
            /\ run'[j].pc # "queued"
            /\ \/ import_jobs[j].api_key_id \notin DOMAIN api_keys
               \/ ~api_keys[import_jobs[j].api_key_id].is_active )
          => /\ import_jobs'[j].status = "failed"
             /\ TextNonEmpty(import_jobs'[j].error_details)
             /\ run'[j].pc = "done"
             /\ adapter_log'[j] = << >> ]_vars

\* C10: a credential's last_used_at is written exactly by the steps in which a
\* run of that credential ends success or partial (with a reading of the clock
\* not before the job's finished_at); every other step, among them every step
\* that ends a run failed, leaves it as it was.
C10_LastUsedAt ==
    [][ \A k \in KeyIds :
          (k \in DOMAIN api_keys /\ k \in DOMAIN api_keys') =>
            LET ended == { j \in Jobs : /\ import_jobs[j].api_key_id = k
                                        /\ import_jobs[j].status = "running"
                                        /\ import_jobs'[j].status \in {"success", "partial"} }
            IN /\ \A j \in ended : api_keys'[k].last_used_at >= import_jobs'[j].finished_at
               /\ ended = {} => api_keys'[k].last_used_at = api_keys[k].last_used_at ]_vars

\* a run ended partial and stamped the credential; a later run of the same
\* credential ended failed and the stamp is still the first run's
C10_Witness ==
    \E j1 \in Jobs, j2 \in Jobs :
        /\ import_jobs[j1].api_key_id = import_jobs[j2].api_key_id
        /\ import_jobs[j1].status = "partial"
        /\ import_jobs[j2].status = "failed"
        /\ import_jobs[j2].finished_at > import_jobs[j1].finished_at
        /\ api_keys[import_jobs[j1].api_key_id].last_used_at = import_jobs[j1].finished_at

\* C11: terminal states are absorbing.  Once the committed row of a job has
\* finished_at set, no step of any run and no API operation changes the row:
\* status, counters, summary, error_details and finished_at stay as they are.
C11_TerminalAbsorbing ==
    [][ \A j \in Jobs :
          import_jobs[j].finished_at # NoTime =>
             /\ j \in DOMAIN import_jobs'
             /\ import_jobs'[j] = import_jobs[j] ]_vars

\* a job was terminal while another run listed, processed an item and finished,
\* and while the credential was switched off afterwards
C11_Witness ==
    \E j1 \in Jobs, j2 \in Jobs :
        /\ import_jobs[j1].status \in TerminalStatus
        /\ import_jobs[j1].finished_at # NoTime
        /\ import_jobs[j2].finished_at > import_jobs[j1].finished_at
        /\ ListReturned(j2) /\ outcome[j2] # << >>
        /\ ~api_keys[import_jobs[j1].api_key_id].is_active

\* the last call a run has made to its adapter
LastCall(log) == log[Len(log)]

\* the step is one in which the item of run j raised (lines 145-148 ran)
ItemRaised(j) == outcome'[j] = Append(outcome[j], "error")

\* C12: a duplicate is skipped with no side effects.  In the step in which
\* fetch_conversation returns a detail whose (provider, native id) is already
\* stored and the duplicate query of lines 90-93 returns (the item does not
\* raise), the item is skipped: no row of the three tables is added or changed
\* (the stored conversation keeps its title, job and rows whatever the fetched
\* content), the session holds nothing to commit, no counter moves, no error is
\* appended and the job row is untouched.
C12_DuplicateSkipped ==
    [][ \A j \in JobIds :
          ( /\ Len(adapter_log'[j]) = Len(adapter_log[j]) + 1
            /\ LastCall(adapter_log'[j]).call = "fetch"
            /\ LastCall(adapter_log'[j]).ok
            /\ ~ItemRaised(j)
            /\ \E c \in conversations :
                  /\ c.provider_id = import_jobs[j].provider_id
                  /\ c.provider_conversation_id =
                        LastCall(adapter_log'[j]).detail.provider_conversation_id )
          => /\ outcome'[j] = Append(outcome[j], "skipped")
             /\ conversations' = conversations
             /\ messages' = messages
             /\ artifacts' = artifacts
             /\ run'[j].pending = NoRows
             /\ run'[j].conversations_count = run[j].conversations_count
             /\ run'[j].messages_count = run[j].messages_count
             /\ run'[j].artifacts_count = run[j].artifacts_count
             /\ run'[j].errors = run[j].errors
             /\ run'[j].i = run[j].i + 1
             /\ import_jobs' = import_jobs ]_vars

\* a run skipped conversation "a" although the detail it fetched has another title
\* and other messages than the stored conversation, and finished with no error
C12_Witness ==
    \E j \in Jobs : \E n \in Items(j, "skipped") : \E c \in conversations :
        /\ c.provider_conversation_id = "a"
        /\ FetchedDetail(j, n).provider_conversation_id = "a"
        /\ FetchedDetail(j, n).title # c.title
        /\ Cardinality(ArtifactsOf(c.id)) # Len(FetchedDetail(j, n).artifacts)
        /\ run[j].pc = "done"
        /\ import_jobs[j].status = "success"
        /\ import_jobs[j].conversations_imported = 0

\* the place in the error list of the entry of the n-th item, when that item raised
ErrIndex(j, n) == Cardinality({ m \in 1..n : outcome[j][m] = "error" })

\* C13: a duplicate is never reported as an error, also under concurrency.  When
\* two runs of one provider have fetched the same native id and one of them has
\* created its row, the other run has that item as skipped; it has an error entry
\* for it only when the database failed for a reason of its own.
C13_ConcurrentDuplicateSilent ==
    \A j \in Jobs : \A o \in Jobs \ {j} : \A n \in 1..Len(outcome[j]) :
        ( /\ import_jobs[o].provider_id = import_jobs[j].provider_id
          /\ Fetches(j)[n].ok
          /\ FetchedDetail(j, n).provider_conversation_id # NULL
          /\ \E c \in ConversationsOf(o) :
                c.provider_conversation_id = FetchedDetail(j, n).provider_conversation_id )
        => \/ outcome[j][n] = "skipped"
           \/ /\ outcome[j][n] = "error"
              /\ run[j].errors[ErrIndex(j, n)].msg \in DbErrors

\* C14: a fetched conversation without a native id is never taken for a
\* duplicate: it is not skipped, whatever conversations without a native id the
\* provider already has stored.
C14_NullIdNeverSkipped ==
    \A j \in Jobs : \A n \in 1..Len(outcome[j]) :
        ( /\ Fetches(j)[n].ok
          /\ FetchedDetail(j, n).provider_conversation_id = NULL )
        => outcome[j][n] # "skipped"

\* C15: each conversation's insert is its own transaction.  A step in which an
\* item of a run fails (in fetch_conversation, at the flush or at the commit, with
\* the rollback of line 147, whether it returns or raises) leaves the three tables
\* exactly as they were: the rows
\* committed for earlier items of the run and the rows of other runs stay.
C15_RollbackKeepsCommitted ==
    [][ \A j \in JobIds :
          outcome'[j] = Append(outcome[j], "error") =>
             /\ conversations' = conversations
             /\ messages' = messages
             /\ artifacts' = artifacts ]_vars

\* a run imported its first item, with two messages, then lost its second item to
\* a database error and ended partial; the first item's rows are stored, next to a
\* row committed by the other run
C15_Witness ==
    \E j \in Jobs : \E o \in Jobs \ {j} :
        /\ outcome[j] = <<"imported", "error">>
        /\ run[j].errors[1].msg \in DbErrors
        /\ import_jobs[j].status = "partial"
        /\ \E c \in ConversationsOf(j) :
              /\ c.id = ConvId(j, 1)
              /\ Cardinality(MessagesOf(c.id)) = 2
        /\ ConversationsOf(o) # {}

\* the item loop of run j has gone through the whole list (line 150 is reached)
LoopCompleted(j) == ListReturned(j) /\ run[j].i > Len(run[j].summaries)

\* C16: a run whose item loop has completed never has its job failed, and once
\* it has finalized the status is decided by the item errors alone: success
\* exactly when no item raised, partial exactly when at least one did.  That
\* covers the empty list, the run all of whose items were skipped and the run
\* all of whose items raised.
C16_StatusFromErrors ==
    \A j \in Jobs :
        LoopCompleted(j) =>
            /\ import_jobs[j].status # "failed"
            /\ run[j].pc = "done" =>
                  /\ import_jobs[j].status = "success" <=> Items(j, "error") = {}
                  /\ import_jobs[j].status = "partial" <=> Items(j, "error") # {}

\* one finished run listed two items and both raised (partial, nothing imported),
\* the other listed nothing (success)
C16_Witness ==
    \E j \in Jobs : \E o \in Jobs \ {j} :
        /\ run[j].pc = "done" /\ run[o].pc = "done"
        /\ outcome[j] = <<"error", "error">>
        /\ import_jobs[j].status = "partial"
        /\ import_jobs[j].conversations_imported = 0
        /\ ListReturned(o) /\ run[o].summaries = << >>
        /\ import_jobs[o].status = "success"

\* C17: a job that is failed has processed no item: no conversation carries
\* its id, no message or artifact row belongs to it and its three counters are 0.
C17_FailedProcessedNothing ==
    \A j \in Jobs :
        import_jobs[j].status = "failed" =>
            /\ ConversationsOf(j) = {}
            /\ \A m \in messages : m.conversation_id[1] # j
            /\ \A x \in artifacts : x.conversation_id[1] # j
            /\ import_jobs[j].conversations_imported = 0
            /\ import_jobs[j].messages_imported = 0
            /\ import_jobs[j].artifacts_imported = 0

\* what a reader of a finished job sees of its outcome
Record(j) ==
    [status |-> import_jobs[j].status, summary |-> import_jobs[j].summary,
     error_details |-> import_jobs[j].error_details,
     conversations_imported |-> import_jobs[j].conversations_imported,
     messages_imported |-> import_jobs[j].messages_imported,
     artifacts_imported |-> import_jobs[j].artifacts_imported]
\* the items of run j that raised, in processing order
Failed(j) == Items(j, "error")
NthFailed(j, n) == CHOOSE m \in Failed(j) : Cardinality({ x \in Failed(j) : x <= m }) = n

\* C18: the error list is capped and the overflow is counted.  A run that has
\* finalized as partial with K > ErrorCap failed items records exactly the
\* errors of its first ErrorCap failed items, in processing order, and its job
\* row still tells how many items failed: two such runs with different K have
\* different rows.
C18_OverflowCounted ==
    /\ \A j \in Jobs :
          (run[j].pc = "done" /\ import_jobs[j].status = "partial"
                /\ Cardinality(Failed(j)) > ErrorCap) =>
             /\ Len(import_jobs[j].error_details) = ErrorCap
             /\ \A n \in 1..ErrorCap :
                   import_jobs[j].error_details[n].conv = run[j].summaries[NthFailed(j, n)]
    /\ \A j \in Jobs : \A o \in Jobs :
          ( /\ run[j].pc = "done" /\ run[o].pc = "done"
            /\ import_jobs[j].status = "partial" /\ import_jobs[o].status = "partial"
            /\ Cardinality(Failed(j)) > ErrorCap
            /\ Cardinality(Failed(o)) > ErrorCap
            /\ Cardinality(Failed(j)) # Cardinality(Failed(o)) )
          => Record(j) # Record(o)

\* the sequence indices a detail supplies / a conversation has stored, with the
\* number of times each occurs
SuppliedCount(d, v) == Cardinality({ n \in 1..Len(d.messages) : d.messages[n] = v })
StoredCount(cid, v) == Cardinality({ m \in MessagesOf(cid) : m.sequence_index = v })
SeqIndexes == {0, 1, 2}

\* C19: every stored message carries the sequence_index the adapter supplied for
\* it, and the stored indices of a conversation are, value by value and with
\* their multiplicities, those of the fetched detail.
C19_SequenceIndexVerbatim ==
    /\ \A m \in messages :
          LET d == FetchedDetail(m.conversation_id[1], m.conversation_id[2]) IN
            /\ m.id[2] \in 1..Len(d.messages)
            /\ m.sequence_index = d.messages[m.id[2]]
    /\ \A c \in conversations : \A v \in SeqIndexes :
          StoredCount(c.id, v) = SuppliedCount(FetchedDetail(c.id[1], c.id[2]), v)

\* a stored conversation whose two messages were supplied in the order 1, 0: the
\* message added first has index 1, the one added second has index 0
C19_Witness ==
    \E c \in conversations :
        /\ FetchedDetail(c.id[1], c.id[2]).messages = <<1, 0>>
        /\ \E m1 \in MessagesOf(c.id), m2 \in MessagesOf(c.id) :
              /\ m1.id[2] = 1 /\ m1.sequence_index = 1
              /\ m2.id[2] = 2 /\ m2.sequence_index = 0

\* C20: in every state the messages of one conversation have pairwise distinct
\* sequence indices, whatever message list the adapter returned for it.
C20_SequenceIndexUnique ==
    \A m1 \in messages, m2 \in messages :
        ( /\ m1.conversation_id = m2.conversation_id
          /\ m1.sequence_index = m2.sequence_index ) => m1 = m2

\* ------------------------------------------------------------------ C21
Ascending(s) == \A n \in 1..(Len(s) - 1) : s[n] <= s[n + 1]
Indexes(ms) == [n \in 1..Len(ms) |-> ms[n].sequence_index]
Range(s) == { s[n] : n \in DOMAIN s }
\* the insertion order of a conversation's messages: the pipeline numbers the
\* rows by their place in the adapter's list
InsertionOrder(cid) ==
    [n \in 1..Cardinality(MessagesOf(cid)) |->
        CHOOSE m \in MessagesOf(cid) : m.id = <<cid, n>>]

\* C21: for every stored conversation and every order in which the database
\* loads its messages, get_conversation and export_conversation_to_markdown
\* return all of its messages, in ascending sequence_index order.
C21_ReadsAscending ==
    \A c \in conversations : \A loaded \in LoadOrders(MessagesOf(c.id)) :
        /\ Ascending(Indexes(get_conversation(c.id, loaded).messages))
        /\ Range(get_conversation(c.id, loaded).messages) = MessagesOf(c.id)
        /\ Len(get_conversation(c.id, loaded).messages) = Cardinality(MessagesOf(c.id))
        /\ Ascending(export_conversation_to_markdown(c.id, loaded))
        /\ Len(export_conversation_to_markdown(c.id, loaded)) = Cardinality(MessagesOf(c.id))

\* a committed conversation whose messages were inserted out of sequence order
C21_Witness ==
    \E c \in conversations :
        /\ ~Ascending(Indexes(InsertionOrder(c.id)))
        /\ Ascending(Indexes(get_conversation(c.id, InsertionOrder(c.id)).messages))

\* ------------------------------------------------------------------ C22
\* the detail from which conversation c was persisted
DetailOf(c) == FetchedDetail(c.id[1], c.id[2])
\* the n-th artifact of the detail names a message of the detail
Matched(d, n) == \E x \in 1..Len(d.messages) : d.messages[x] = d.artifacts[n]

\* C22: the artifact persisted for the n-th artifact of a detail is linked to
\* every stored message of its conversation whose sequence_index equals the
\* artifact's message_sequence_index.
C22_ArtifactLinked ==
    \A c \in conversations : \A n \in 1..Len(DetailOf(c).artifacts) :
        \A m \in MessagesOf(c.id) :
            m.sequence_index = DetailOf(c).artifacts[n]
                => \E a \in ArtifactsOf(c.id) : a.id = <<c.id, n>> /\ a.message_id = m.id

\* ------------------------------------------------------------------ C23
\* C23: the artifact of a persisted detail whose message_sequence_index matches
\* none of the detail's messages is stored, with a null message_id; and once
\* such a detail has been flushed the artifact is among the rows that wait
\* for the commit.
C23_UnmatchedArtifactKept ==
    /\ \A c \in conversations : \A n \in 1..Len(DetailOf(c).artifacts) :
          ~Matched(DetailOf(c), n)
              => \E a \in ArtifactsOf(c.id) : a.id = <<c.id, n>> /\ a.message_id = NoId
    /\ \A j \in JobIds :
          run[j].pc = "commit" =>
              \A n \in 1..Len(run[j].conv_detail.artifacts) :
                  ~Matched(run[j].conv_detail, n)
                      => \E a \in run[j].pending.artifacts :
                            a.id = <<ConvId(j, run[j].i), n>> /\ a.message_id = NoId

\* a committed conversation without messages whose artifact names message 2
C23_Witness ==
    \E c \in conversations :
        /\ DetailOf(c).messages = << >>
        /\ DetailOf(c).artifacts = <<2>>
        /\ \E a \in ArtifactsOf(c.id) : a.id = <<c.id, 1>> /\ a.message_id = NoId

\* ------------------------------------------------------------------ C25
\* the run of job j met the scenario: the list was a then b, fetch(a) returned
\* three messages in order and one artifact, fetch(b) raised
ExampleRun(j) ==
    /\ run[j].pc = "done"
    /\ run[j].summaries = <<"a", "b">>
    /\ Len(Fetches(j)) = 2
    /\ Fetches(j)[1].ok
    /\ Fetches(j)[1].detail.messages = <<0, 1, 2>>
    /\ Len(Fetches(j)[1].detail.artifacts) = 1
    /\ ~Fetches(j)[2].ok
\* no database statement of the run raised (no item failed at the flush or at
\* the commit, and the handler of lines 165-169 was not entered), and no other run
\* stored "a"
Undisturbed(j) ==
    /\ \A n \in 1..Len(outcome[j]) : outcome[j][n] = "error" => ~Fetches(j)[n].ok
    /\ import_jobs[j].status # "failed"
    /\ \A c \in conversations : c.provider_conversation_id = "a" => c.import_job_id = j

\* C25: after the scenario's run, undisturbed by database errors and by other
\* runs, the store holds exactly one conversation of the run, "a" with its 3
\* messages and 1 artifact; the job is partial with counters 1, 3, 1 and its
\* error_details has an entry that names "b".
C25_ExampleScenario ==
    \A j \in Jobs :
        ExampleRun(j) /\ Undisturbed(j) =>
            /\ \E c \in conversations :
                  /\ ConversationsOf(j) = {c}
                  /\ c.provider_conversation_id = "a"
                  /\ Range(Indexes(InsertionOrder(c.id))) = {0, 1, 2}
                  /\ Cardinality(MessagesOf(c.id)) = 3
                  /\ Cardinality(ArtifactsOf(c.id)) = 1
            /\ import_jobs[j].status = "partial"
            /\ import_jobs[j].finished_at # NoTime
            /\ import_jobs[j].conversations_imported = 1
            /\ import_jobs[j].messages_imported = 3
            /\ import_jobs[j].artifacts_imported = 1
            /\ \E n \in 1..Len(import_jobs[j].error_details) :
                  import_jobs[j].error_details[n].conv = "b"

\* the scenario's run has finished and its job is partial
C25_Witness ==
    \E j \in Jobs :
        /\ ExampleRun(j) /\ Undisturbed(j)
        /\ import_jobs[j].status = "partial"
        /\ import_jobs[j].messages_imported = 3
        /\ Cardinality(messages) = 3

\* ------------------------------------------------------------------ C26
\* the text of an exception message contains the plaintext key
Quotes(msg, plain) == msg = KeyEcho(plain)
\* the lines of a stored error_details
ErrorLines(j) == { import_jobs[j].error_details[n].msg : n \in 1..Len(import_jobs[j].error_details) }

\* C26: in every state no job's error_details contains the plaintext of an api
\* key (summary holds three counters and nothing else).
C26_KeyNeverStored ==
    \A j \in Jobs : \A plain \in PlainKeys : \A msg \in ErrorLines(j) : ~Quotes(msg, plain)

\* ------------------------------------------------------------------ C27
\* the committed messages and artifacts of the conversations of run j
MessagesOfRun(j) == UNION { MessagesOf(c.id) : c \in ConversationsOf(j) }
ArtifactsOfRun(j) == UNION { ArtifactsOf(c.id) : c \in ConversationsOf(j) }

\* C27: once a run has finalized, its three counters are the numbers of
\* committed conversations of the run and of their messages and artifacts.
C27_CountersMatchCommitted ==
    \A j \in Jobs :
        (run[j].pc = "done" /\ import_jobs[j].status \in {"success", "partial"}) =>
            /\ import_jobs[j].conversations_imported = Cardinality(ConversationsOf(j))
            /\ import_jobs[j].messages_imported = Cardinality(MessagesOfRun(j))
            /\ import_jobs[j].artifacts_imported = Cardinality(ArtifactsOfRun(j))

\* ------------------------------------------------------------------ C28
\* C28: the n-th fetch_conversation of a run is for the n-th listed summary; it
\* is called only when the n-1 items before it are settled (imported, skipped
\* or failed and rolled back) and nothing of them waits in the run's
\* transaction; the error entries, in the run and in the error_details stored
\* at finalization, follow the list order of the items that failed.
C28_SequentialInListOrder ==
    \A j \in Jobs :
        /\ \A n \in 1..Len(Fetches(j)) :
              /\ n <= Len(run[j].summaries)
              /\ Fetches(j)[n].id = run[j].summaries[n]
        /\ Len(outcome[j]) <= Len(Fetches(j))
        /\ Len(Fetches(j)) <= Len(outcome[j]) + 1
        /\ Len(Fetches(j)) = Len(outcome[j]) => run[j].pending = NoRows
        /\ Len(run[j].errors) = Cardinality(Failed(j))
        /\ \A k \in 1..Len(run[j].errors) :
              run[j].errors[k].conv = run[j].summaries[NthFailed(j, k)]
        /\ (run[j].pc = "done" /\ import_jobs[j].status = "partial") =>
              \A k \in 1..Len(import_jobs[j].error_details) :
                  import_jobs[j].error_details[k].conv = run[j].summaries[NthFailed(j, k)]

\* a finished run over two different summaries, both failed: the first after
\* its rows were flushed, the second in fetch_conversation
C28_Witness ==
    \E j \in Jobs :
        /\ run[j].pc = "done"
        /\ Len(run[j].summaries) = 2
        /\ run[j].summaries[1] # run[j].summaries[2]
        /\ outcome[j] = <<"error", "error">>
        /\ Fetches(j)[1].ok /\ ~Fetches(j)[2].ok
        /\ Len(import_jobs[j].error_details) = 2

\* ------------------------------------------------------------------ C29
\* C29: while a run has not finalized, a reader of its job sees a
\* conversations_imported that counts every conversation the run has committed.
C29_CountersFollowCommits ==
    \A j \in Jobs :
        run[j].pc \notin {"done", "crashed"} =>
            get_import_job(j).conversations_imported >= Cardinality(ConversationsOf(j))

\* ------------------------------------------------------------------ C30
\* the step commits the row of job j
Created(j) == j \notin DOMAIN import_jobs /\ j \in DOMAIN import_jobs'
\* the response of create_import_job: the row as committed, nothing of a run in it
FreshJob(job) ==
    /\ job.status = "running"
    /\ job.finished_at = NoTime
    /\ job.summary = NullText
    /\ job.error_details = NullText
    /\ job.conversations_imported = 0

\* C30: the step that commits a job row commits it as running with finished_at
\* unset and only queues the run: no line of run_import_job has executed, no
\* adapter was called and no row was stored in that step.  A run exists only
\* for a committed job, and a job row changes only in a step of its own run,
\* after it was started.
C30_FireAndContinue ==
    /\ [](\A j \in JobIds : run[j].pc # "none" => j \in Jobs)
    /\ [](\A j \in Jobs : run[j].pc = "queued" => FreshJob(get_import_job(j)))
    /\ [][\A j \in JobIds :
            /\ Created(j) =>
                  /\ FreshJob(import_jobs'[j])
                  /\ run[j].pc = "none" /\ run'[j].pc = "queued"
                  /\ adapter_log'[j] = << >> /\ outcome'[j] = << >>
                  /\ <<conversations, messages, artifacts>>' = <<conversations, messages, artifacts>>
            /\ (j \in Jobs /\ import_jobs'[j] # import_jobs[j]) =>
                  /\ run[j].pc \notin {"none", "done", "crashed"}
                  /\ run'[j].pc # run[j].pc ]_vars

\* a job was created and returned while another run of the same store is in
\* the middle of its list; the new job's run has not started
C30_Witness ==
    \E j \in Jobs, j2 \in Jobs :
        /\ run[j].pc = "queued"
        /\ FreshJob(get_import_job(j))
        /\ run[j2].pc = "commit"

\* ------------------------------------------------------------------ C31
\* the fields of a job row that report on its run
RunReport(job) ==
    <<job.status, job.conversations_imported, job.messages_imported, job.artifacts_imported,
      job.summary, job.error_details, job.finished_at>>
\* the step belongs to the run_import_job execution of job j and to no other
StepOfRun(j) ==
    /\ run[j].pc \notin {"none", "done", "crashed"}
    /\ run'[j] # run[j]
    /\ \A j2 \in JobIds \ {j} : run'[j2] = run[j2]

\* C31: a step that changes the status, a counter, summary, error_details or
\* finished_at of an existing job is a step of that job's own run; the
\* operations on api keys, the creation of another job, a restart and the steps
\* of every other run leave them as they are.
C31_SingleWriter ==
    [][\A j \in Jobs :
          (j \in DOMAIN import_jobs' /\ RunReport(import_jobs'[j]) # RunReport(import_jobs[j]))
              => StepOfRun(j)]_vars

\* two jobs of one key: the first has finished, the key was then deactivated
\* and the second is still unfinished
C31_Witness ==
    \E j \in Jobs, j2 \in Jobs :
        /\ import_jobs[j].api_key_id = import_jobs[j2].api_key_id
        /\ import_jobs[j].api_key_id \in DOMAIN api_keys
        /\ ~api_keys[import_jobs[j].api_key_id].is_active
        /\ import_jobs[j].status \in {"success", "partial"}
        /\ import_jobs[j2].status = "running"
        /\ run[j2].pc = "commit"

\* ------------------------------------------------------------------ C32
\* the native id is stored, but only for providers other than p
OnlyElsewhere(p, pcid) ==
    /\ pcid # NULL
    /\ \E c \in conversations : c.provider_conversation_id = pcid /\ c.provider_id # p
    /\ \A c \in conversations : c.provider_conversation_id = pcid => c.provider_id # p

\* C32: when fetch_conversation returns a detail whose native id is stored only
\* for another provider and the duplicate query returns, the item is not
\* skipped but goes on to the insert; the insert of such a row is not rejected
\* as a duplicate; and the commit adds a conversation of the run's provider
\* with that native id.
C32_DedupByPair ==
    [][ \A j \in Jobs :
          /\ ( /\ Len(adapter_log'[j]) = Len(adapter_log[j]) + 1
               /\ LastCall(adapter_log'[j]).call = "fetch"
               /\ LastCall(adapter_log'[j]).ok
               /\ ~ItemRaised(j)
               /\ OnlyElsewhere(import_jobs[j].provider_id,
                                LastCall(adapter_log'[j]).detail.provider_conversation_id) )
             => /\ outcome'[j] = outcome[j]
                /\ run'[j].pc = "flush"
                /\ run'[j].conv_detail = LastCall(adapter_log'[j]).detail
          /\ ( /\ run[j].pc = "flush" /\ run'[j].pc # "flush"
               /\ OnlyElsewhere(import_jobs[j].provider_id,
                                run[j].conv_detail.provider_conversation_id) )
             => /\ Len(run'[j].errors) > Len(run[j].errors)
                    => LastCall(run'[j].errors).msg # "duplicate key value"
          /\ ( /\ run[j].pc = "commit" /\ outcome'[j] = Append(outcome[j], "imported") )
             => \E c \in conversations' \ conversations :
                    /\ c.provider_id = import_jobs[j].provider_id
                    /\ c.provider_conversation_id = run[j].conv_detail.provider_conversation_id
                    /\ c.import_job_id = j ]_vars

\* the native id "a" is stored once for each of two providers
C32_Witness ==
    \E c1 \in conversations, c2 \in conversations :
        /\ c1.provider_conversation_id = "a"
        /\ c2.provider_conversation_id = "a"
        /\ c1.provider_id # c2.provider_id

\* ------------------------------------------------------------------ C33
\* run j2 is a re-import of run j1: same provider, created after j1 had ended
\* success, the adapter listed the same summaries, every fetch returned and no
\* duplicate query raised
ReImport(j1, j2) ==
    /\ j1 # j2
    /\ import_jobs[j1].provider_id = import_jobs[j2].provider_id
    /\ run[j1].pc = "done" /\ import_jobs[j1].status = "success" /\ ListReturned(j1)
    /\ import_jobs[j2].started_at > import_jobs[j1].finished_at
    /\ ListReturned(j2)
    /\ run[j2].summaries = run[j1].summaries
    /\ \A n \in 1..Len(Fetches(j2)) : Fetches(j2)[n].ok
    /\ Items(j2, "error") = {}

\* C33: a re-import has a job row of its own, stores no conversation, message
\* or artifact at any point of its run, and once it has finalized its job is
\* success with the three counters 0; no step changes the row of a job
\* whose run has ended.
C33_ReImportIdempotent ==
    /\ [](\A j1 \in Jobs, j2 \in Jobs :
            ReImport(j1, j2) =>
                /\ ConversationsOf(j2) = {}
                /\ MessagesOfRun(j2) = {} /\ ArtifactsOfRun(j2) = {}
                /\ run[j2].pending = NoRows
                /\ \A n \in 1..Len(outcome[j2]) : outcome[j2][n] = "skipped"
                /\ run[j2].pc = "done" =>
                      /\ import_jobs[j2].status = "success"
                      /\ import_jobs[j2].conversations_imported = 0
                      /\ import_jobs[j2].messages_imported = 0
                      /\ import_jobs[j2].artifacts_imported = 0)
    /\ [][\A j1 \in Jobs : run[j1].pc = "done" => import_jobs'[j1] = import_jobs[j1]]_vars

\* a re-import of a run that imported two conversations has finished
C33_Witness ==
    \E j1 \in Jobs, j2 \in Jobs :
        /\ ReImport(j1, j2)
        /\ run[j2].pc = "done"
        /\ import_jobs[j1].conversations_imported = 2
        /\ outcome[j2] = <<"skipped", "skipped">>
        /\ Cardinality(conversations) = 2

\* ------------------------------------------------------------------ C34
JobStatuses == {"running", "success", "partial", "failed"}

\* C34: every committed job row has one of the four statuses, has finished_at
\* set exactly when its status is not running, and has a summary only when its
\* status is success or partial.
C34_StatusAndFinishedAt ==
    \A j \in Jobs :
        /\ get_import_job(j).status \in JobStatuses
        /\ (get_import_job(j).finished_at # NoTime) <=> (get_import_job(j).status # "running")
        /\ get_import_job(j).summary # NullText
              => get_import_job(j).status \in {"success", "partial"}

\* one job failed and stamped without a summary, another finished success with
\* its summary
C34_Witness ==
    \E j \in Jobs, j2 \in Jobs :
        /\ import_jobs[j].status = "failed"
        /\ import_jobs[j].finished_at # NoTime
        /\ import_jobs[j].summary = NullText
        /\ import_jobs[j2].status = "success"
        /\ import_jobs[j2].summary # NullText

\* ------------------------------------------------------------------ C35
\* the provider ids a request may carry: the stored ones and one that is not
RequestProviders == Providers \cup {0}

\* C35: a request whose credential does not exist or is inactive, or whose
\* provider does not exist, is answered with an error and is no step of the
\* system: no job row is added and no run is queued.  Every step that adds a
\* job row is one whose request passed the three checks in the state before.
C35_RejectedCreatesNothing ==
    /\ [](\A p \in RequestProviders, k \in KeyIds, range \in Ranges :
            create_import_job_status(p, k) # 200
                => ~ENABLED create_import_job(p, k, range[1], range[2]))
    /\ [][\A j \in JobIds :
            (Created(j) \/ (run[j].pc = "none" /\ run'[j].pc # "none"))
                => /\ Created(j)
                   /\ create_import_job_status(import_jobs'[j].provider_id,
                                               import_jobs'[j].api_key_id) = 200]_vars

\* a job exists, its key was deactivated afterwards and a further request with
\* that key is refused although another job could still be created
C35_Witness ==
    \E k \in DOMAIN api_keys :
        /\ ~api_keys[k].is_active
        /\ Cardinality(Jobs) = 1
        /\ create_import_job_status(1, k) = 400
        /\ ~ENABLED create_import_job(1, k, 1, NoDate)

\* ------------------------------------------------------------------ C36
\* C36: a job whose run has called its provider's adapter refers to a
\* credential of that provider.
C36_KeyOfProvider ==
    \A j \in Jobs :
        (adapter_log[j] # << >> /\ import_jobs[j].api_key_id \in DOMAIN api_keys)
            => api_keys[import_jobs[j].api_key_id].provider_id = import_jobs[j].provider_id

\* ------------------------------------------------------------------ C37
\* the run whose commit this step is
Committing(j) == run[j].pc = "commit" /\ outcome'[j] = Append(outcome[j], "imported")

\* C37: in every state each message and each artifact belongs to a stored
\* conversation, and each conversation carries the id of an existing job and
\* that job's provider; the rows a step adds are added by the commit of one run:
\* the conversations carry that run's job id and provider, and the messages and
\* artifacts belong to the conversations added in the same step.
C37_RowsOfTheirRun ==
    /\ [](/\ \A c \in conversations :
               /\ c.import_job_id \in Jobs
               /\ c.provider_id = import_jobs[c.import_job_id].provider_id
          /\ \A m \in messages : \E c \in conversations : c.id = m.conversation_id
          /\ \A a \in artifacts : \E c \in conversations : c.id = a.conversation_id)
    /\ [][ <<conversations, messages, artifacts>>' # <<conversations, messages, artifacts>>
            => \E j \in Jobs :
                  /\ Committing(j)
                  /\ conversations \subseteq conversations'
                  /\ messages \subseteq messages' /\ artifacts \subseteq artifacts'
                  /\ \A c \in conversations' \ conversations :
                        c.import_job_id = j /\ c.provider_id = import_jobs[j].provider_id
                  /\ \A m \in messages' \ messages :
                        \E c \in conversations' \ conversations : c.id = m.conversation_id
                  /\ \A a \in artifacts' \ artifacts :
                        \E c \in conversations' \ conversations : c.id = a.conversation_id ]_vars

\* two runs of different providers have each committed a conversation with
\* messages
C37_Witness ==
    \E c1 \in conversations, c2 \in conversations :
        /\ c1.import_job_id # c2.import_job_id
        /\ c1.provider_id # c2.provider_id
        /\ MessagesOf(c1.id) # {} /\ MessagesOf(c2.id) # {}
        /\ ArtifactsOf(c1.id) # {}

\* ------------------------------------------------------------------ C38
RangeKeys(rr) == { e[1] : e \in rr.entries }
\* the value stored under a key of requested_range
RangeValue(rr, key) == CHOOSE v \in { e[2] : e \in { x \in rr.entries : x[1] = key } } : TRUE

\* C38: requested_range has no key other than from_date and to_date and is null
\* exactly when it has none; the step that creates a job stores from_date
\* exactly when the request carries a lower bound and to_date exactly when it
\* carries an upper bound, each with the bound's isoformat; and the options a
\* run hands to list_conversations are the stored entries, none for a null
\* requested_range.
C38_RequestedRange ==
    /\ [](\A j \in Jobs :
            LET rr == get_import_job(j).requested_range IN
              /\ RangeKeys(rr) \subseteq {"from_date", "to_date"}
              /\ rr.isnull <=> rr.entries = {}
              /\ adapter_log[j] # << >> =>
                    run[j].options = (IF rr.isnull THEN {} ELSE rr.entries))
    /\ [][\A j \in JobIds :
            Created(j) =>
                LET rr == import_jobs'[j].requested_range
                    from == request.from_date
                    to == request.to_date
                IN /\ request.pc = "insert"
                   /\ "from_date" \in RangeKeys(rr) <=> from # NoDate
                   /\ "to_date" \in RangeKeys(rr) <=> to # NoDate
                   /\ from # NoDate => RangeValue(rr, "from_date") = Iso(from)
                   /\ to # NoDate => RangeValue(rr, "to_date") = Iso(to)
                   /\ rr.isnull <=> (from = NoDate /\ to = NoDate)]_vars

\* one run listed with no option for a job without bounds, another with both
\* options for a job with both bounds
C38_Witness ==
    \E j \in Jobs, j2 \in Jobs :
        /\ import_jobs[j].requested_range.isnull
        /\ ListReturned(j) /\ run[j].options = {}
        /\ RangeKeys(import_jobs[j2].requested_range) = {"from_date", "to_date"}
        /\ ListReturned(j2) /\ run[j2].options = import_jobs[j2].requested_range.entries

\* ------------------------------------------------------------------ C39
\* every register call so far: the two of _register_default_providers, then
\* the later ones
AllRegisterCalls == <<Adapter("openai", 1), Adapter("anthropic", 1)>> \o register_calls
\* the adapter most recently registered under name n
LastRegistered(n) ==
    LET at == { i \in 1..Len(AllRegisterCalls) : AllRegisterCalls[i].provider_name = n }
    IN  AllRegisterCalls[CHOOSE i \in at : \A x \in at : x <= i]

\* C39: list_providers is the set of names registered so far, openai and
\* anthropic alone before any later register call; the adapter stored under a
\* listed name has that provider_name and is the one registered last under it;
\* get_adapter returns that adapter for a listed name and raises ValueError for
\* any other, and changes neither the registry nor the list.
C39_Registry ==
    /\ [](/\ list_providers =
                { AllRegisterCalls[i].provider_name : i \in 1..Len(AllRegisterCalls) }
          /\ register_calls = << >> => list_providers = {"openai", "anthropic"}
          /\ \A n \in list_providers :
                registry[n].provider_name = n /\ registry[n] = LastRegistered(n))
    /\ [][lookup' # lookup =>
            /\ registry' = registry
            /\ register_calls' = register_calls
            /\ lookup'.name \in list_providers =>
                  /\ lookup'.raised = NULL
                  /\ lookup'.returned = LastRegistered(lookup'.name)
                  /\ lookup'.returned.provider_name = lookup'.name
            /\ lookup'.name \notin list_providers =>
                  /\ lookup'.raised = ValueError(lookup'.name)
                  /\ lookup'.returned = NotAnAdapter]_vars

\* openai was registered again with another instance and get_adapter returned
\* that instance; mistral was registered too
C39_Witness ==
    /\ register_calls = <<Adapter("openai", 2), Adapter("mistral", 1)>>
    /\ lookup = [name |-> "openai", raised |-> NULL, returned |-> Adapter("openai", 2)]
    /\ list_providers = {"openai", "anthropic", "mistral"}

====
